---- MODULE Spec2Model ----
(***************************************************************************)
(* Model of the session daemon (src/unnamed/part_000: main, the watcher    *)
(* "session" handler, the SIGINT handler) together with the clear-sessions *)
(* endpoint of the API server (src/packages/daemon/src/api.ts).            *)
(*                                                                         *)
(* SessionWatcher (./watcher.js) and StreamServer (./server.js) are not    *)
(* part of the sources at hand; their behaviour is taken from the design   *)
(* document (sections 4.1 and 4.2).  The Change Detector is modelled by    *)
(* the events it emits and the Store it keeps; the stream's log is kept    *)
(* per primary key, the only order the stream promises.                    *)
(*                                                                         *)
(* The iteration loops of the API server (LoopSpec) and the dashboard's    *)
(* two pure functions of src/packages/ui/src/hooks/useSessions.ts          *)
(* (GroupSpec, StatusSpec) are specifications of their own over the same   *)
(* variables: each leaves the rest of the state as constructed.            *)
(*                                                                         *)
(* Time is counted in units of MAX_AGE_HOURS, so MAX_AGE_MS is 1.          *)
(* A JavaScript callback runs to its next await without interruption, so   *)
(* each action below is one such run.                                      *)
(***************************************************************************)
EXTENDS Integers, Sequences, FiniteSets, TLC

\* ------------------------------------------------------------------ bounds
MaxNow == 1       \* the clock stops advancing here
MaxEvents == 3    \* events the watcher emits
MaxFail == 1      \* PublishErrors injected

Ids == {1, 2}

\* const MAX_AGE_MS = MAX_AGE_HOURS * 60 * 60 * 1000, in units of MAX_AGE_HOURS
MAX_AGE_MS == 1

VARIABLES
  events,     \* events emitted by the watcher so far
  now,        \* Date.now()
  gen,        \* per session: generations of content parsed so far
  store,      \* the watcher's Store: sessionId -> SessionState
  watcher,    \* "new" | "starting" | "watching" | "stopped" | "failed"
  stream,     \* "new" | "running" | "stopping" | "stopped"
  api,        \* "new" | "running" | "stopping" | "stopped"
  pc,         \* where main() is suspended
  recent,     \* recentSessions not yet published by the initial pass
  pending,    \* outcome of the publish main() is awaiting
  sig,        \* position of the SIGINT handler
  proc,       \* "running" | "exit0" | "exit1"
  log,        \* the stream's durable log, per primary key, in sequence order
  failed,     \* publishSession invocations that ended in a PublishError
  reported,   \* console.error lines for failed publishes
  onClearSessions,  \* whether the ApiServer was given the callback
  clearReq,   \* the latest POST /api/sessions/clear: "none" | "awaiting" | "answered"
  clearCalls, \* invocations of the callback made for it
  clearOutcome, \* how the callback's promise settles: "none" | "resolved" | "rejected"
  clearResp,  \* status code answered to it, 0 while there is none
  loops,      \* every LoopProcess object created, in creation order
  children,   \* per loop: the child processes spawned for it, in spawn order
  activeLoops, \* the ApiServer's registry: loopId -> LoopProcess
  cancelResp, \* answer to the latest POST /api/loop/cancel
  uiNow,      \* Date.now() in the dashboard
  sessions,   \* the Session[] the dashboard function is applied to
  applied,    \* which function was applied: "none" | "group" | "status"
  result      \* what it returned

vars == <<events, now, gen, store, watcher, stream, api, pc, recent, pending, sig,
          proc, log, failed, reported, onClearSessions, clearReq, clearCalls,
          clearOutcome, clearResp, loops, children, activeLoops, cancelResp,
          uiNow, sessions, applied, result>>

mainVars == <<pc, recent, pending>>
clearVars == <<clearReq, clearCalls, clearOutcome, clearResp>>
loopVars == <<loops, children, activeLoops, cancelResp>>
uiVars == <<uiNow, sessions, applied, result>>

\* ----------------------------------------------------------------- helpers
Put(f, k, v) == [x \in DOMAIN f \cup {k} |-> IF x = k THEN v ELSE f[x]]
Del(f, k) == [x \in DOMAIN f \ {k} |-> f[x]]

\* ----------------------------------------------------------- stream server
Rec(op, s, src) == [op |-> op, ver |-> s.ver, src |-> src]

\* what an append can come back with: done, or PublishError (at most MaxFail
\* times in a run)
Outcomes == IF failed < MaxFail THEN {TRUE, FALSE} ELSE {TRUE}

\* streamServer.publishSession(session, operation): the record is appended
\* with the next sequence number, or the append fails and nothing is appended
publishSession(id, op, s, src, ok) ==
  /\ log' = IF ok THEN [log EXCEPT ![id] = Append(@, Rec(op, s, src))] ELSE log
  /\ failed' = IF ok THEN failed ELSE failed + 1

\* consumer semantics: insert/update replace the keyed entity with the
\* payload, delete removes it
Known(id) == log[id] # <<>> /\ log[id][Len(log[id])].op # "delete"

View == [id \in {k \in Ids : Known(k)} |-> [ver |-> log[id][Len(log[id])].ver]]

\* streamServer.clearAllSessions(): a delete for every entity the stream knows
clearAllSessions(ok) ==
  log' = IF ok
            THEN [id \in Ids |->
                    IF Known(id)
                    THEN Append(log[id], Rec("delete", View[id], "clear"))
                    ELSE log[id]]
            ELSE log

\* ------------------------------------------------------------ recency filter
IsRecentInclusive(s) == now - s.last <= MAX_AGE_MS

isRecentSession(s) == now - s.last < MAX_AGE_MS

\* ------------------------------------------------- watcher.on("session", ...)
\* the ternary without its first arm
OperationNoInsert(type) == IF type = "deleted" THEN "delete" ELSE "update"

Operation(type) ==
  IF type = "created" THEN "insert"
  ELSE IF type = "deleted" THEN "delete" ELSE "update"

\* the handler with the filter applied to deletions too
SessionHandlerFilterDeleted(type, id, s) ==
  IF ~isRecentSession(s)
  THEN UNCHANGED <<log, failed, reported>>
  ELSE \E ok \in Outcomes :
         /\ publishSession(id, Operation(type), s, "event", ok)
         /\ reported' = IF ok THEN reported ELSE reported + 1

\* the handler: the filter, the call of publishSession, the catch block
SessionHandler(type, id, s) ==
  IF ~isRecentSession(s) /\ type # "deleted"
  THEN UNCHANGED <<log, failed, reported>>
  ELSE \E ok \in Outcomes :
         /\ publishSession(id, Operation(type), s, "event", ok)
         /\ reported' = IF ok THEN reported ELSE reported + 1

\* the clock is read by isRecentSession only: once the watcher has no event
\* left to emit and main() has taken its snapshot, no step reads it any more
Tick ==
  /\ proc = "running"
  /\ now < MaxNow
  /\ events < MaxEvents \/ pc \in {"streamStart", "apiStart", "watcherStart"}
  /\ now' = now + 1
  /\ UNCHANGED <<events, gen, store, watcher, stream, api, mainVars, sig, proc, log,
                 failed, reported, onClearSessions, clearVars, loopVars, uiVars>>

\* ------------------------------------------------------ the Change Detector
\* a re-scan of one session file, its diff against the Store and the event
\* it emits; emit() runs the handler synchronously.  Session ids are opaque:
\* they are numbered in the order the sessions first appear.
Watching == watcher \in {"starting", "watching"}

ScanCreated(id) ==
  /\ proc = "running" /\ Watching
  /\ id \notin DOMAIN store
  /\ \A j \in Ids : j < id => gen[j] > 0
  /\ events < MaxEvents
  /\ events' = events + 1
  /\ \E t \in 0..now :
       LET s == [last |-> t, ver |-> gen[id] + 1] IN
       /\ store' = Put(store, id, s)
       /\ gen' = [gen EXCEPT ![id] = @ + 1]
       /\ SessionHandler("created", id, s)
  /\ UNCHANGED <<now, watcher, stream, api, mainVars, sig, proc,
                 onClearSessions, clearVars, loopVars, uiVars>>

ScanUpdated(id) ==
  /\ proc = "running" /\ Watching
  /\ id \in DOMAIN store
  /\ events < MaxEvents
  /\ events' = events + 1
  /\ \E t \in {store[id].last, now} :
       LET s == [last |-> t, ver |-> gen[id] + 1] IN
       /\ store' = Put(store, id, s)
       /\ gen' = [gen EXCEPT ![id] = @ + 1]
       /\ SessionHandler("updated", id, s)
  /\ UNCHANGED <<now, watcher, stream, api, mainVars, sig, proc,
                 onClearSessions, clearVars, loopVars, uiVars>>

ScanDeleted(id) ==
  /\ proc = "running" /\ Watching
  /\ id \in DOMAIN store
  /\ events < MaxEvents
  /\ events' = events + 1
  /\ store' = Del(store, id)
  /\ SessionHandler("deleted", id, store[id])
  /\ UNCHANGED <<now, gen, watcher, stream, api, mainVars, sig, proc,
                 onClearSessions, clearVars, loopVars, uiVars>>

\* ------------------------------------------------------------------ main()
StreamStart ==
  /\ proc = "running" /\ pc = "streamStart"
  /\ stream' = "running"
  /\ pc' = "apiStart"
  /\ UNCHANGED <<events, now, gen, store, watcher, api, recent, pending, sig, proc,
                 log, failed, reported, onClearSessions, clearVars, loopVars, uiVars>>

\* apiServer.start() resolves; main registers the handlers and calls
\* watcher.start()
ApiStart ==
  /\ proc = "running" /\ pc = "apiStart"
  /\ api' = "running"
  /\ watcher' = "starting"
  /\ pc' = "watcherStart"
  /\ UNCHANGED <<events, now, gen, store, stream, recent, pending, sig, proc, log,
                 failed, reported, onClearSessions, clearVars, loopVars, uiVars>>

\* one turn of `for (const session of recentSessions)` up to its await
PublishInitial(rem) ==
  IF DOMAIN rem = {}
  THEN /\ pc' = "ready"
       /\ recent' = rem
       /\ pending' = "none"
       /\ UNCHANGED <<log, failed>>
  ELSE \E id \in DOMAIN rem, ok \in Outcomes :
         /\ publishSession(id, "insert", rem[id], "initial", ok)
         /\ recent' = Del(rem, id)
         /\ pending' = IF ok THEN "ok" ELSE "err"
         /\ pc' = "awaitPublish"

RecentSessions ==
  [id \in {i \in DOMAIN store : isRecentSession(store[i])} |-> store[id]]

\* watcher.start() resolves: getSessions(), the filter, the first publish
WatcherStarted ==
  /\ proc = "running" /\ pc = "watcherStart"
  /\ watcher \in {"starting", "stopped"}
  /\ watcher' = IF watcher = "starting" THEN "watching" ELSE watcher
  /\ PublishInitial(RecentSessions)
  /\ UNCHANGED <<events, now, gen, store, stream, api, sig, proc, reported,
                 onClearSessions, clearVars, loopVars, uiVars>>

\* watcher.start() rejects (WatchInitError): main() rejects, main().catch
\* logs "Fatal error" and process.exit(1) runs
WatcherStartFailed ==
  /\ proc = "running" /\ pc = "watcherStart"
  /\ watcher = "starting" /\ DOMAIN store = {}
  /\ watcher' = "failed"
  /\ proc' = "exit1"
  /\ UNCHANGED <<events, now, gen, store, stream, api, mainVars, sig, log, failed,
                 reported, onClearSessions, clearVars, loopVars, uiVars>>

\* the initial pass with the try around the loop: a rejection ends the pass
PublishSettledBreak ==
  /\ proc = "running" /\ pc = "awaitPublish"
  /\ reported' = IF pending = "err" THEN reported + 1 ELSE reported
  /\ IF pending = "err"
     THEN /\ pc' = "ready"
          /\ pending' = "none"
          /\ UNCHANGED <<recent, log, failed>>
     ELSE PublishInitial(recent)
  /\ UNCHANGED <<events, now, gen, store, watcher, stream, api, sig, proc,
                 onClearSessions, clearVars, loopVars, uiVars>>

\* the awaited publishSession settles: the catch block, then the next turn
PublishSettled ==
  /\ proc = "running" /\ pc = "awaitPublish"
  /\ reported' = IF pending = "err" THEN reported + 1 ELSE reported
  /\ PublishInitial(recent)
  /\ UNCHANGED <<events, now, gen, store, watcher, stream, api, sig, proc,
                 onClearSessions, clearVars, loopVars, uiVars>>

\* ------------------------------------------------- ApiServer: iteration loops
MaxSpawn == 2     \* iterations requested by all loops together
MaxMs == 1        \* the millisecond clock stops advancing here

daemonVars == <<events, now, gen, store, watcher, stream, pc, recent, pending, sig,
                proc, log, failed, reported, onClearSessions, clearVars>>

\* exit code handed to the "close" listener; "null" when a signal ended the
\* child
Codes == {"zero", "nonzero", "null"}

\* the ChildProcess spawn() returns
Child ==
  [state |-> "spawned", signalled |-> FALSE, code |-> "none", marker |-> FALSE]

\* the for loop without the await: every remaining iteration is spawned at once
RECURSIVE runIterationsNoAwait(_, _, _, _)
runIterationsNoAwait(L, C, l, i) ==
  IF i > L[l].iterations \/ L[l].status # "running"
  THEN [loops |-> L, children |-> C]
  ELSE runIterationsNoAwait(
         [L EXCEPT ![l].currentIteration = i, ![l].process = Len(C[l]) + 1],
         [C EXCEPT ![l] = Append(@, Child)], l, i + 1)

\* runIterations from the top of turn i up to its await: the loop ends (and a
\* status still "running" becomes "completed"), or runCommandWithProcess
\* spawns the child of turn i and stores it in loop.process
runIterations(L, C, l, i) ==
  IF i > L[l].iterations \/ L[l].status # "running"
  THEN [loops |-> [L EXCEPT ![l].status =
                     IF @ = "running" THEN "completed" ELSE @],
        children |-> C]
  ELSE [loops |-> [L EXCEPT ![l].currentIteration = i,
                            ![l].process = Len(C[l]) + 1],
        children |-> [C EXCEPT ![l] = Append(@, Child)]]

\* the continuation that ignores the completion marker
ResumedIgnoreMarker(L, C, l, resolved, marker) ==
  IF resolved
  THEN runIterations(L, C, l, L[l].currentIteration + 1)
  ELSE [loops |-> [L EXCEPT ![l].status = "failed"], children |-> C]

\* runIterations after its await: the marker check or the catch block, then
\* the next turn
Resumed(L, C, l, resolved, marker) ==
  IF resolved
  THEN IF marker
       THEN [loops |-> [L EXCEPT ![l].status = "completed"], children |-> C]
       ELSE runIterations(L, C, l, L[l].currentIteration + 1)
  ELSE [loops |-> [L EXCEPT ![l].status = "failed"], children |-> C]

\* loops the registry refers to
Registered == {activeLoops[id] : id \in DOMAIN activeLoops}

\* GET /api/loop/status
handleLoopStatus ==
  {[id |-> loops[l].id, iterations |-> loops[l].iterations,
    currentIteration |-> loops[l].currentIteration,
    status |-> loops[l].status] : l \in Registered}

\* the loop of stop(): SIGTERM to and "cancelled" for every registered loop
\* that runs, then activeLoops.clear()
stop ==
  LET hit == {l \in Registered : loops[l].process # 0 /\ loops[l].status = "running"}
  IN /\ loops' = [l \in DOMAIN loops |->
                    IF l \in hit THEN [loops[l] EXCEPT !.status = "cancelled"]
                    ELSE loops[l]]
     /\ children' = [l \in DOMAIN children |->
                       IF l \in hit
                       THEN [children[l] EXCEPT ![loops[l].process].signalled = TRUE]
                       ELSE children[l]]
     /\ activeLoops' = <<>>

Serving == api \in {"running", "stopping"}

RECURSIVE Requested(_)
Requested(n) == IF n = 0 THEN 0 ELSE loops[n].iterations + Requested(n - 1)

\* Date.now() never runs backwards: a reading is not before the one the
\* latest loopId was made of
Clock == {t \in 0..MaxMs : \A l \in DOMAIN loops : loops[l].id <= t}

\* POST /api/loop/start once the body is parsed: the 400, or startLoopProcess
\* and the first turn of runIterations (the answer repeats the input and the
\* loopId).  A request under way when close() is called is still served.
handleStartLoop(iterations, t) ==
  /\ Serving
  /\ IF iterations < 1
     THEN UNCHANGED <<loops, children, activeLoops>>
     ELSE /\ Requested(Len(loops)) + iterations <= MaxSpawn
          /\ LET loopId == t
                 l == Len(loops) + 1
                 loop == [id |-> loopId, process |-> 0, iterations |-> iterations,
                          currentIteration |-> 0, status |-> "running"]
                 r == runIterations(Append(loops, loop), Append(children, <<>>),
                                    l, 1)
             IN /\ activeLoops' = Put(activeLoops, loopId, l)
                /\ loops' = r.loops
                /\ children' = r.children
  /\ UNCHANGED <<daemonVars, api, cancelResp, uiVars>>

\* POST /api/loop/cancel once the body is parsed; loopId -1 is a body
\* without loopId
handleCancelLoop(loopId) ==
  /\ Serving
  /\ IF loopId = -1
     THEN /\ cancelResp' = [code |-> 400, loopId |-> loopId, status |-> "none"]
          /\ UNCHANGED <<loops, children>>
     ELSE IF loopId \notin DOMAIN activeLoops
     THEN /\ cancelResp' = [code |-> 404, loopId |-> loopId, status |-> "none"]
          /\ UNCHANGED <<loops, children>>
     ELSE LET l == activeLoops[loopId] IN
          IF loops[l].status = "running" /\ loops[l].process # 0
          THEN /\ children' = [children EXCEPT
                                 ![l][loops[l].process].signalled = TRUE]
               /\ loops' = [loops EXCEPT ![l].status = "cancelled"]
               /\ cancelResp' = [code |-> 200, loopId |-> loopId,
                                 status |-> "cancelled"]
          ELSE /\ cancelResp' = [code |-> 200, loopId |-> loopId,
                                 status |-> loops[l].status]
               /\ UNCHANGED <<loops, children>>
  /\ UNCHANGED <<daemonVars, api, activeLoops, uiVars>>

\* the "close" event of child k of loop l: the promise of
\* runCommandWithProcess settles and runIterations resumes.  A child that was
\* sent SIGTERM ends by the signal (code null) or exits on its own with any
\* code.
ChildClose(l, k, code, marker) ==
  /\ children[l][k].state = "spawned"
  /\ code = "null" => children[l][k].signalled
  /\ LET closed == [children EXCEPT ![l][k].state = "closed",
                                    ![l][k].code = code,
                                    ![l][k].marker = marker /\ code # "nonzero"]
         r == Resumed(loops, closed, l, code \in {"zero", "null"}, marker)
     IN /\ loops' = r.loops
        /\ children' = r.children
  /\ UNCHANGED <<daemonVars, api, activeLoops, cancelResp, uiVars>>

\* the "error" event of child k of loop l (the command could not be
\* spawned): the promise rejects
ChildError(l, k) ==
  /\ children[l][k].state = "spawned"
  /\ ~children[l][k].signalled
  /\ LET gone == [children EXCEPT ![l][k].state = "failed"]
         r == Resumed(loops, gone, l, FALSE, FALSE)
     IN /\ loops' = r.loops
        /\ children' = r.children
  /\ UNCHANGED <<daemonVars, api, activeLoops, cancelResp, uiVars>>

\* apiServer.stop() up to server.close()
ApiStop ==
  /\ api = "running"
  /\ api' = "stopping"
  /\ stop
  /\ UNCHANGED <<daemonVars, cancelResp, uiVars>>

\* the callback of server.close(): every connection has ended
ApiClosed ==
  /\ api = "stopping"
  /\ api' = "stopped"
  /\ UNCHANGED <<daemonVars, loopVars, uiVars>>

\* ------------------------------------------------------- process.on("SIGINT")
Sigint ==
  /\ proc = "running" /\ sig = "none"
  /\ pc \notin {"streamStart", "apiStart"}
  /\ watcher' = "stopped"
  /\ api' = "stopping"
  /\ sig' = "apiStopping"
  /\ stop
  /\ UNCHANGED <<events, now, gen, store, stream, mainVars, proc, log, failed,
                 reported, onClearSessions, clearVars, cancelResp, uiVars>>

\* apiServer.stop() resolves (server.close waits for open requests), then
\* streamServer.stop() is called
SigintApiStopped ==
  /\ proc = "running" /\ sig = "apiStopping"
  /\ clearReq # "awaiting"
  /\ api' = "stopped"
  /\ stream' = "stopping"
  /\ sig' = "streamStopping"
  /\ UNCHANGED <<events, now, gen, store, watcher, mainVars, proc, log, failed,
                 reported, onClearSessions, clearVars, loopVars, uiVars>>

\* streamServer.stop() resolves, then process.exit(0)
SigintExit ==
  /\ proc = "running" /\ sig = "streamStopping"
  /\ stream' = "stopped"
  /\ sig' = "done"
  /\ proc' = "exit0"
  /\ UNCHANGED <<events, now, gen, store, watcher, api, mainVars, log, failed,
                 reported, onClearSessions, clearVars, loopVars, uiVars>>

\* ------------------------------------------------ POST /api/sessions/clear
\* the catch block answering like the success path
ClearResponseAlways200(outcome) == 200

ClearResponse(outcome) == IF outcome = "rejected" THEN 500 ELSE 200

\* handleClearSessions up to its await (requests are served one at a time)
ClearPost ==
  /\ proc = "running" /\ api = "running"
  /\ clearReq # "awaiting"
  /\ IF onClearSessions
     THEN /\ clearCalls' = 1
          /\ \E ok \in BOOLEAN :
               /\ clearAllSessions(ok)
               /\ clearOutcome' = IF ok THEN "resolved" ELSE "rejected"
          /\ clearReq' = "awaiting"
          /\ clearResp' = 0
     ELSE /\ clearCalls' = 0
          /\ clearOutcome' = "none"
          /\ clearReq' = "answered"
          /\ clearResp' = ClearResponse("none")
          /\ UNCHANGED log
  /\ UNCHANGED <<events, now, gen, store, watcher, stream, api, mainVars, sig, proc,
                 failed, reported, onClearSessions, loopVars, uiVars>>

\* the callback settles: 200 {success:true}, or the catch block's 500
ClearSettled ==
  /\ proc = "running"
  /\ clearReq = "awaiting"
  /\ clearResp' = ClearResponse(clearOutcome)
  /\ clearReq' = "answered"
  /\ UNCHANGED <<events, now, gen, store, watcher, stream, api, mainVars, sig, proc,
                 log, failed, reported, onClearSessions, clearCalls,
                 clearOutcome, loopVars, uiVars>>

\* ------------------------------------------------ dashboard: useSessions.ts
\* The dashboard's clock and lastActivityAt are counted in units of 30
\* minutes (the half-life of the activity score), so IDLE_TIMEOUT_MS is 2.
\* activityScore is counted in units of 2^-MaxClock, which keeps every
\* score of the model a whole number.
MaxClock == 3       \* latest time on the dashboard's clock
MaxSessions == 2    \* length of the Session[] handed to groupSessionsByRepo

IDLE_TIMEOUT_MS == 2
PENDING_TOOL_BONUS == 30

\* gitRepoId: string | null
Null == "<null>"
RepoIds == {Null, "Other", "o/a", "o/b"}
Statuses == {"working", "waiting", "idle"}

STATUS_WEIGHTS(status) ==
  IF status = "working" THEN 100 ELSE IF status = "waiting" THEN 50 ELSE 1

RECURSIVE Pow2(_)
Pow2(n) == IF n = 0 THEN 1 ELSE 2 * Pow2(n - 1)

\* Math.pow(0.5, ageMinutes / 30), scaled
decayFactor(age) == Pow2(MaxClock - age)

RECURSIVE calculateRepoActivityScore(_)
calculateRepoActivityScore(ss) ==
  IF ss = <<>> THEN 0
  ELSE LET session == ss[Len(ss)]
           sessionScore == STATUS_WEIGHTS(session.status)
                           + (IF session.hasPendingToolUse
                              THEN PENDING_TOOL_BONUS ELSE 0)
       IN calculateRepoActivityScore(SubSeq(ss, 1, Len(ss) - 1))
          + sessionScore * decayFactor(uiNow - session.lastActivityAt)

\* session.gitRepoId ?? "Other"
RepoKey(session) ==
  IF session.gitRepoId = Null THEN "Other" ELSE session.gitRepoId

\* the keys of the Map, in insertion order
RECURSIVE GroupKeys(_)
GroupKeys(ss) ==
  IF ss = <<>> THEN <<>>
  ELSE LET front == GroupKeys(SubSeq(ss, 1, Len(ss) - 1))
           key == RepoKey(ss[Len(ss)])
       IN IF \E i \in DOMAIN front : front[i] = key
          THEN front ELSE Append(front, key)

\* one entry of groupsWithScores
RepoGroup(ss, key) ==
  LET members == SelectSeq(ss, LAMBDA s : RepoKey(s) = key)
  IN [repoId |-> key,
      repoUrl |-> IF key = "Other" THEN <<Null>> ELSE <<"https://github.com/", key>>,
      sessions |-> members,
      activityScore |-> calculateRepoActivityScore(members)]

\* the comparator with its operands swapped
CompareAscending(a, b) == a.activityScore - b.activityScore

\* (a, b) => b.activityScore - a.activityScore
Compare(a, b) == b.activityScore - a.activityScore

\* Array.prototype.sort: stable, a stays before b unless Compare(a, b) > 0
RECURSIVE SortGroups(_)
SortGroups(gs) ==
  IF gs = <<>> THEN <<>>
  ELSE LET front == SortGroups(SubSeq(gs, 1, Len(gs) - 1))
           g == gs[Len(gs)]
           keep == {i \in DOMAIN front :
                      \A j \in 1..i : Compare(front[j], g) <= 0}
           n == Cardinality(keep)
       IN SubSeq(front, 1, n) \o <<g>> \o SubSeq(front, n + 1, Len(front))

groupSessionsByRepo(ss) ==
  LET keys == GroupKeys(ss)
  IN SortGroups([i \in DOMAIN keys |-> RepoGroup(ss, keys[i])])

getEffectiveStatus(session) ==
  IF uiNow - session.lastActivityAt > IDLE_TIMEOUT_MS
  THEN "idle" ELSE session.status

\* a Session as far as the two functions read it; sessionId is the place in
\* the array
Session(i, times) ==
  [sessionId : {i}, gitRepoId : RepoIds, status : Statuses,
   lastActivityAt : times, hasPendingToolUse : BOOLEAN]

\* the Session[] values of length n
SessionArrays(n, times) ==
  {ss \in [1..n -> UNION {Session(i, times) : i \in 1..n}] :
     \A i \in 1..n : ss[i].sessionId = i}

\* the dashboard calls groupSessionsByRepo(sessions)
ApplyGroup ==
  /\ applied = "none"
  /\ applied' = "group"
  /\ result' = groupSessionsByRepo(sessions)
  /\ UNCHANGED <<daemonVars, api, loopVars, uiNow, sessions>>

\* RepoSection calls getEffectiveStatus(s) for the sessions of its group
ApplyStatus ==
  /\ applied = "none"
  /\ applied' = "status"
  /\ result' = [i \in DOMAIN sessions |-> getEffectiveStatus(sessions[i])]
  /\ UNCHANGED <<daemonVars, api, loopVars, uiNow, sessions>>

\* ------------------------------------------------------------ specification
\* the ApiServer as constructed: no loop, no request answered
LoopInit ==
  /\ loops = <<>>
  /\ children = <<>>
  /\ activeLoops = <<>>
  /\ cancelResp = [code |-> 0, loopId |-> -1, status |-> "none"]

\* the dashboard before it rendered anything
UiIdle ==
  /\ uiNow = 0
  /\ sessions = <<>>
  /\ applied = "none"
  /\ result = <<>>

Init ==
  /\ now = 0
  /\ events = 0
  /\ gen = [id \in Ids |-> 0]
  /\ store = <<>>
  /\ watcher = "new" /\ stream = "new" /\ api = "new"
  /\ pc = "streamStart"
  /\ recent = <<>>
  /\ pending = "none"
  /\ sig = "none"
  /\ proc = "running"
  /\ log = [id \in Ids |-> <<>>]
  /\ failed = 0
  /\ reported = 0
  /\ onClearSessions \in BOOLEAN
  /\ clearReq = "none"
  /\ clearCalls = 0
  /\ clearOutcome = "none"
  /\ clearResp = 0
  /\ LoopInit
  /\ UiIdle

Next ==
  \/ Tick
  \/ \E id \in Ids : ScanCreated(id)
  \/ \E id \in Ids : ScanUpdated(id)
  \/ \E id \in Ids : ScanDeleted(id)
  \/ StreamStart
  \/ ApiStart
  \/ WatcherStarted
  \/ WatcherStartFailed
  \/ PublishSettled
  \/ Sigint
  \/ SigintApiStopped
  \/ SigintExit
  \/ ClearPost
  \/ ClearSettled

Spec == Init /\ [][Next]_vars

\* the ApiServer's loops on their own: the daemon is up and left alone
DaemonReady ==
  /\ now = 0
  /\ events = 0
  /\ gen = [id \in Ids |-> 0]
  /\ store = <<>>
  /\ watcher = "watching" /\ stream = "running" /\ api = "running"
  /\ pc = "ready"
  /\ recent = <<>>
  /\ pending = "none"
  /\ sig = "none"
  /\ proc = "running"
  /\ log = [id \in Ids |-> <<>>]
  /\ failed = 0
  /\ reported = 0
  /\ onClearSessions = TRUE
  /\ clearReq = "none"
  /\ clearCalls = 0
  /\ clearOutcome = "none"
  /\ clearResp = 0

InitLoops == DaemonReady /\ LoopInit /\ UiIdle

NextLoops ==
  \/ \E n \in 0..MaxSpawn, t \in Clock : handleStartLoop(n, t)
  \/ \E id \in -1..MaxMs : handleCancelLoop(id)
  \/ \E l \in DOMAIN loops, code \in Codes, marker \in BOOLEAN :
       \E k \in DOMAIN children[l] : ChildClose(l, k, code, marker)
  \/ \E l \in DOMAIN loops : \E k \in DOMAIN children[l] : ChildError(l, k)
  \/ ApiStop
  \/ ApiClosed

LoopSpec == InitLoops /\ [][NextLoops]_vars

\* groupSessionsByRepo on the sessions of the last hour, at the latest time
InitGroup ==
  /\ DaemonReady /\ LoopInit
  /\ uiNow = MaxClock
  /\ \E n \in 0..MaxSessions :
       sessions \in SessionArrays(n, {MaxClock - 1, MaxClock})
  /\ applied = "none"
  /\ result = <<>>

NextGroup == ApplyGroup

GroupSpec == InitGroup /\ [][NextGroup]_vars

\* getEffectiveStatus on one session, at any time of the clock
InitStatus ==
  /\ DaemonReady /\ LoopInit
  /\ uiNow \in 0..MaxClock
  /\ sessions \in SessionArrays(1, 0..MaxClock)
  /\ applied = "none"
  /\ result = <<>>

NextStatus == ApplyStatus

StatusSpec == InitStatus /\ [][NextStatus]_vars

\* ------------------------------------------------------------------ claims
Last(q) == q[Len(q)]

\* publishSession is invoked in this step, and for which session
Appended(id) == Len(log'[id]) = Len(log[id]) + 1 /\ Last(log'[id]).src # "clear"
Invoked == failed' = failed + 1 \/ \E id \in Ids : Appended(id)

\* the watcher emits created or updated for id in this step
EmitsUpsert(id) ==
  /\ id \in DOMAIN store'
  /\ id \notin DOMAIN store \/ store'[id] # store[id]

\* the watcher emits deleted for id in this step
EmitsDeleted(id) == id \in DOMAIN store /\ id \notin DOMAIN store'

\* C1: an insert or update is handed to the stream exactly when, at the
\* moment of the decision, now - lastActivityAt < maxAge.  In the handler the
\* decision is taken as the event arrives; in the initial pass it is taken
\* when main() filters getSessions(), and the pass then publishes only what
\* passed that filter.
C1_Step ==
  /\ \A id \in Ids :
       EmitsUpsert(id) =>
         /\ (Invoked <=> now - store'[id].last < MAX_AGE_MS)
         /\ \A k \in Ids :
              Appended(k) => k = id /\ Last(log'[k]).ver = store'[id].ver
                             /\ Last(log'[k]).op \in {"insert", "update"}
  /\ pc = "watcherStart" /\ pc' # pc =>
       /\ \A id \in DOMAIN recent' :
            /\ id \in DOMAIN store /\ recent'[id] = store[id]
            /\ now - store[id].last < MAX_AGE_MS
       /\ \A id \in Ids :
            Appended(id) =>
              /\ id \in DOMAIN store
              /\ now - store[id].last < MAX_AGE_MS
              /\ Last(log'[id]) = [op |-> "insert", ver |-> store[id].ver,
                                   src |-> "initial"]
  /\ recent' # recent => pc \in {"watcherStart", "awaitPublish"}
  /\ pc = "awaitPublish" /\ (pc' # pc \/ recent' # recent) =>
       /\ \A id \in DOMAIN recent' :
            id \in DOMAIN recent /\ recent'[id] = recent[id]
       /\ \A id \in Ids :
            Appended(id) =>
              /\ id \in DOMAIN recent
              /\ Last(log'[id]) = [op |-> "insert", ver |-> recent[id].ver,
                                   src |-> "initial"]

C1_RecencyFilter == [][C1_Step]_vars

\* a session too old to publish sits in the Store unpublished, next to one
\* that was published, after the initial pass
C1_Witness ==
  /\ pc = "ready" /\ failed = 0
  /\ \E a, b \in DOMAIN store :
       /\ now - store[a].last >= MAX_AGE_MS /\ log[a] = <<>>
       /\ now - store[b].last < MAX_AGE_MS /\ log[b] # <<>>

\* C2: every deleted event has the handler call publishSession with a delete
\* record for that sessionId, whatever the session's age
C2_Step ==
  \A id \in Ids :
    EmitsDeleted(id) =>
      \/ failed' = failed + 1
      \/ log'[id] = Append(log[id], [op |-> "delete", ver |-> store[id].ver,
                                     src |-> "event"])

C2_DeletionAlwaysPublished == [][C2_Step]_vars

\* a session that was never published (too old) has its delete on the stream
C2_Witness ==
  /\ failed = 0
  /\ \E id \in Ids :
       /\ id \notin DOMAIN store
       /\ Len(log[id]) = 1 /\ log[id][1].op = "delete" /\ log[id][1].src = "event"

\* C3: without clearAllSessions and without publish failures, once the
\* initial pass is over and no event is pending, the view reconstructed from
\* the records equals the Store for every session that was ever published
EverEligible ==
  {id \in Ids : \E i \in DOMAIN log[id] : log[id][i].op \in {"insert", "update"}}

C3_Convergence ==
  pc = "ready" /\ failed = 0 /\ clearCalls = 0 =>
    \A id \in EverEligible :
      /\ (id \in DOMAIN store <=> id \in DOMAIN View)
      /\ (id \in DOMAIN store => View[id].ver = store[id].ver)

\* C4: no session (in one state of its content) is published as an insert
\* twice by the created events of start() and the initial pass together
C4_NoDuplicateInsert ==
  \A id \in Ids : \A i, j \in DOMAIN log[id] :
    i < j /\ log[id][i].op = "insert" /\ log[id][j].op = "insert"
      => log[id][i].ver # log[id][j].ver

\* C5: per session a later record never carries an older state than an
\* earlier one, and no insert follows a delete unless the session was created
\* again (no clear involved)
C5_NoStaleOverwrite ==
  clearCalls = 0 =>
    \A id \in Ids : \A i, j \in DOMAIN log[id] :
      i < j =>
        /\ log[id][j].ver >= log[id][i].ver
        /\ (log[id][i].op = "delete" /\ log[id][j].op = "insert"
              => log[id][j].ver > log[id][i].ver)

\* C6: when watcher.start() fails the process keeps running, with the stream
\* server and the API server up
C6_StartFailureNotFatal ==
  watcher = "failed" =>
    proc = "running" /\ stream = "running" /\ api = "running"

\* C7: a rejected publish is reported and stops nothing: the process keeps
\* running, the initial pass goes on to hand every remaining session to
\* publishSession, and later events are still handed to it
C7_Step ==
  /\ reported' + (IF pc' = "awaitPublish" /\ pending' = "err" THEN 1 ELSE 0)
       = failed'
  /\ (failed' = failed + 1 => proc' = "running")
  /\ pc = "awaitPublish" /\ pending = "err" /\ (pc' # pc \/ recent' # recent) =>
       /\ reported' = reported + 1
       /\ proc' = "running"
       /\ IF DOMAIN recent = {}
          THEN pc' = "ready"
          ELSE /\ Invoked
               /\ Cardinality(DOMAIN recent') = Cardinality(DOMAIN recent) - 1
  /\ (pc' = "ready" => DOMAIN recent' = {})
  /\ failed > 0 =>
       \A id \in Ids :
         /\ (EmitsUpsert(id) /\ now - store'[id].last < MAX_AGE_MS
               => Appended(id) \/ failed' = failed + 1)
         /\ (EmitsDeleted(id) => Appended(id) \/ failed' = failed + 1)

C7_PublishFailureIsolated == [][C7_Step]_vars

\* the initial publish of a failed and was reported, the pass went on to
\* publish b, and the process runs
C7_Witness ==
  /\ pc = "ready" /\ proc = "running" /\ failed = 1 /\ reported = 1
  /\ \E a, b \in DOMAIN store :
       /\ gen[a] = 1 /\ now - store[a].last < MAX_AGE_MS
       /\ Len(log[a]) = 1 /\ log[a][1].src = "event"
       /\ log[b] # <<>> /\ Last(log[b]).src = "initial"

\* C8: a POST /api/sessions/clear invokes the callback once; 200 is answered
\* only when the callback has resolved, 500 when it rejected; without a
\* callback the answer is 200 and nothing changes; the Store is never touched
PostStep == clearReq # "awaiting" /\ clearVars' # clearVars
AnswerStep == clearReq = "awaiting" /\ clearVars' # clearVars
ClearRecords ==
  \E id \in Ids : log'[id] # log[id] /\ Last(log'[id]).src = "clear"

C8_Step ==
  /\ (clearVars' # clearVars => store' = store)
  /\ PostStep =>
       /\ clearCalls' = IF onClearSessions THEN 1 ELSE 0
       /\ IF onClearSessions
          THEN clearReq' = "awaiting" /\ clearResp' = 0
          ELSE clearReq' = "answered" /\ clearResp' = 200 /\ log' = log
  /\ AnswerStep =>
       /\ clearReq' = "answered"
       /\ clearCalls' = clearCalls
       /\ clearOutcome' = clearOutcome
       /\ log' = log
       /\ (clearResp' = 200 <=> clearOutcome = "resolved")
       /\ (clearResp' = 500 <=> clearOutcome = "rejected")
  /\ ClearRecords => PostStep /\ onClearSessions /\ clearOutcome' = "resolved"

C8_ClearContract == [][C8_Step]_vars

\* a clear was answered 200 after its deletes were appended, and the Store
\* still holds the cleared session
C8_Witness ==
  /\ clearReq = "answered" /\ clearResp = 200 /\ clearCalls = 1
  /\ \E id \in DOMAIN store : log[id] # <<>> /\ Last(log[id]).src = "clear"

\* C9: once cleared, a session stays out of the view until it is created
\* again: the record that follows a clear's delete is never an update, nor an
\* insert of the initial pass
C9_ClearedStaysDeleted ==
  \A id \in Ids : \A i \in DOMAIN log[id] :
    log[id][i].src = "clear" /\ i < Len(log[id]) =>
      \/ log[id][i + 1].op = "delete"
      \/ log[id][i + 1].op = "insert" /\ log[id][i + 1].src = "event"

\* C10: publishSession is invoked only while the stream server is running
C10_Step == Invoked => stream = "running"

C10_PublishOnlyWhileRunning == [][C10_Step]_vars

\* C14: a session inactive for IDLE_TIMEOUT_MS or longer is reported idle
\* whatever its stored status, a session inactive for less is reported with
\* its stored status
C14_IdleAfterTimeout ==
  applied = "status" =>
    \A i \in DOMAIN sessions :
      result[i] = IF uiNow - sessions[i].lastActivityAt >= IDLE_TIMEOUT_MS
                  THEN "idle" ELSE sessions[i].status

\* C15: the groups partition the input: every session lies in exactly one
\* group, once, and that group's repoId is its gitRepoId ("Other" for
\* null); no group is empty; a group keeps the input order; repoUrl is null
\* exactly for "Other"; activityScore never increases along the result
C15_GroupsPartition ==
  applied = "group" =>
    /\ \A i \in DOMAIN sessions :
         LET at == {p \in {<<g, j>> : g \in DOMAIN result, j \in DOMAIN sessions} :
                      /\ p[2] \in DOMAIN result[p[1]].sessions
                      /\ result[p[1]].sessions[p[2]] = sessions[i]}
         IN /\ Cardinality(at) = 1
            /\ \A p \in at :
                 result[p[1]].repoId =
                   IF sessions[i].gitRepoId = Null THEN "Other"
                   ELSE sessions[i].gitRepoId
    /\ \A g \in DOMAIN result :
         /\ result[g].sessions # <<>>
         /\ \A j \in DOMAIN result[g].sessions :
              \E i \in DOMAIN sessions : result[g].sessions[j] = sessions[i]
         /\ \A j, k \in DOMAIN result[g].sessions :
              j < k =>
                result[g].sessions[j].sessionId < result[g].sessions[k].sessionId
         /\ (result[g].repoUrl = <<Null>> <=> result[g].repoId = "Other")
         /\ \A h \in DOMAIN result :
              g < h => result[g].activityScore >= result[h].activityScore

\* two groups came back in the opposite order of their first sessions, the
\* later one being the group of the session without repository
C15_Witness ==
  /\ applied = "group"
  /\ Len(result) = 2 /\ Len(sessions) = 2
  /\ result[1].sessions = <<sessions[2]>>
  /\ result[2].sessions = <<sessions[1]>>
  /\ result[1].activityScore > result[2].activityScore
  /\ sessions[1].gitRepoId = Null /\ result[2].repoId = "Other"

\* C16: every event that passes the filter has the handler call
\* publishSession exactly once, in the step that emits it, with insert for
\* created, update for updated and delete for deleted; so per session the
\* records of the events lie on the stream in the order of the events
C16_Step ==
  \A id \in Ids :
    LET type == IF EmitsDeleted(id) THEN "deleted"
                ELSE IF id \notin DOMAIN store THEN "created" ELSE "updated"
        s == IF type = "deleted" THEN store[id] ELSE store'[id]
        op == IF type = "created" THEN "insert"
              ELSE IF type = "updated" THEN "update" ELSE "delete"
    IN ((EmitsUpsert(id) \/ EmitsDeleted(id))
        /\ (type = "deleted" \/ now - s.last < MAX_AGE_MS)) =>
         /\ \/ failed' = failed + 1 /\ log' = log
            \/ /\ failed' = failed
               /\ log' = [log EXCEPT ![id] =
                            Append(@, [op |-> op, ver |-> s.ver, src |-> "event"])]
         /\ \A i \in DOMAIN log[id] :
              log[id][i].src = "event" => log[id][i].ver <= s.ver

C16_EventForwarding == [][C16_Step]_vars

\* created, updated and deleted of one session were forwarded in that order
C16_Witness ==
  \E id \in Ids :
    /\ Len(log[id]) = 3
    /\ \A i \in 1..3 : log[id][i].src = "event"
    /\ log[id][1].op = "insert" /\ log[id][2].op = "update"
    /\ log[id][3].op = "delete"
    /\ log[id][1].ver < log[id][2].ver

\* ----------------------------------------------------- claims on the loops
\* no child is spawned for loop l in this step
NoSpawn(l) == Len(children'[l]) = Len(children[l])

\* C11: a cancel request for a running loop sends SIGTERM to its current
\* child and sets the status to cancelled; a cancelled loop stays cancelled
\* whatever its child's close or error brings, and starts no further
\* iteration; for a loop that is not running the request changes nothing and
\* reports the current status; for an unknown loopId the answer is 404
C11_Step ==
  /\ \A l \in DOMAIN loops :
       loops[l].status = "cancelled" =>
         loops'[l].status = "cancelled" /\ NoSpawn(l)
  /\ cancelResp' # cancelResp =>
       LET r == cancelResp' IN
       IF r.loopId = -1
       THEN r.code = 400 /\ loops' = loops /\ children' = children
       ELSE IF r.loopId \notin DOMAIN activeLoops
       THEN r.code = 404 /\ loops' = loops /\ children' = children
       ELSE LET l == activeLoops[r.loopId] IN
            IF loops[l].status = "running"
            THEN /\ children'[l][loops[l].process].signalled
                 /\ loops'[l].status = "cancelled"
                 /\ r.code = 200 /\ r.status = "cancelled"
            ELSE /\ loops' = loops /\ children' = children
                 /\ r.code = 200 /\ r.status = loops[l].status

C11_CancelIsFinal == [][C11_Step]_vars

\* C12: while the server runs, every loop started appears in the status
\* report with its current status and currentIteration, and only stop()
\* removes an entry from the registry
C12_Step ==
  /\ api' = "running" =>
       \A l \in DOMAIN loops' :
         /\ l \in Registered'
         /\ [id |-> loops'[l].id, iterations |-> loops'[l].iterations,
             currentIteration |-> loops'[l].currentIteration,
             status |-> loops'[l].status] \in handleLoopStatus'
  /\ (\E id \in DOMAIN activeLoops : id \notin DOMAIN activeLoops') =>
       api = "running" /\ api' = "stopping"

C12_StatusReportsEveryLoop == [][C12_Step]_vars

\* C13: the child of turn i+1 is spawned only after the child of turn i has
\* closed: per loop at most one child is alive, every earlier one has
\* closed, and loop.process is the most recently spawned one
C13_Sequential ==
  \A l \in DOMAIN loops :
    /\ Cardinality({k \in DOMAIN children[l] : children[l][k].state = "spawned"})
         <= 1
    /\ \A k \in DOMAIN children[l] :
         k < Len(children[l]) => children[l][k].state = "closed"
    /\ loops[l].process = Len(children[l])
    /\ loops[l].currentIteration = Len(children[l])

\* the second child of a loop runs after the first one has closed
C13_Witness ==
  \E l \in DOMAIN loops :
    /\ Len(children[l]) = 2
    /\ children[l][1].state = "closed" /\ children[l][2].state = "spawned"
    /\ loops[l].process = 2 /\ loops[l].status = "running"

\* C17: stop() sends SIGTERM to the child of every running loop, marks the
\* loop cancelled and empties the registry; after stop() no loop started
\* before it spawns another iteration or has a child alive that was not
\* signalled
C17_Step ==
  /\ api = "running" /\ api' # "running" =>
       /\ activeLoops' = <<>>
       /\ \A l \in DOMAIN loops :
            loops[l].status = "running" =>
              /\ loops'[l].status = "cancelled"
              /\ children'[l][loops[l].process].signalled
  /\ api # "running" =>
       \A l \in DOMAIN loops : l \notin Registered => NoSpawn(l)
  /\ api' # "running" =>
       \A l \in DOMAIN loops' : \A k \in DOMAIN children'[l] :
         l \notin Registered' /\ children'[l][k].state = "spawned"
           => children'[l][k].signalled

C17_StopKillsAllLoops == [][C17_Step]_vars

\* C18: when a child exits with code 0 and its output holds the completion
\* marker the loop becomes completed and spawns nothing more; when the child
\* of the last requested turn ends without marker while the loop is still
\* running the loop becomes completed
C18_Step ==
  \A l \in DOMAIN loops :
    /\ loops[l].status = "completed" => NoSpawn(l)
    /\ \A k \in DOMAIN children[l] :
         children[l][k].state = "spawned" /\ children'[l][k].state = "closed" =>
           /\ children'[l][k].code = "zero" /\ children'[l][k].marker =>
                loops'[l].status = "completed" /\ NoSpawn(l)
           /\ (children'[l][k].code = "zero" /\ ~children'[l][k].marker
               /\ loops[l].status = "running") =>
                IF k = loops[l].iterations
                THEN loops'[l].status = "completed" /\ NoSpawn(l)
                ELSE /\ loops'[l].status = "running"
                     /\ loops'[l].currentIteration = k + 1
                     /\ Len(children'[l]) = k + 1

C18_EarlyCompletion == [][C18_Step]_vars

\* a loop asked for two iterations is completed after its first child left
\* with code 0 and the marker
C18_Witness ==
  \E l \in DOMAIN loops :
    /\ loops[l].iterations = 2 /\ loops[l].status = "completed"
    /\ Len(children[l]) = 1
    /\ children[l][1].code = "zero" /\ children[l][1].marker

====
